---- MODULE Spec2Model ----
(***************************************************************************)
(* Model of LookupModal (src/modal/lookup.ts): the suggestion list built   *)
(* by getSuggestions, the comparator sortByDistance, and the bounded       *)
(* Damerau-Levenshtein distance with three rotating row buffers.           *)
(*                                                                         *)
(* Strings are sequences of one-character strings.  Spec is the modal     *)
(* (open, typing, Tab); SpecDist is one call of the distance function.    *)
(***************************************************************************)
EXTENDS Integers, Sequences, FiniteSets, TLC

\* ------------------------------------------------------------------ bounds
MaxLen == 3
MaxThreshold == 3
\* the number of vaults, plus the characters of all paths and titles, plus the
\* characters in the input
MaxSize == 6

\* Number.MAX_SAFE_INTEGER, reduced to the largest integer TLC represents.
INFINITE == 2147483647
\* the threshold sortByDistance passes to damerauLevenshteinDistance
SortThreshold == 10

\* --------------------------------------------------------------- alphabets
DistChars == {"a", "b", "c"}
PathChars == {"a", "A", "."}
TitleChars == {"A", "b"}
QueryChars == {"a", "A", ".", "?", " "}

Strings(chars, lo, hi) == UNION {[1..n -> chars] : n \in lo..hi}

VARIABLES
    vaultList,    \* workspace.vaultList: each vault is its tree.flatten()
    inputValue,   \* inputEl.value, the raw query
    suggestions,  \* what getSuggestions returned for inputValue
    pc,           \* "constructed" | "open" | "suggested"
    source, target, threshold,  \* arguments of damerauLevenshteinDistance
    distance,     \* its return value
    dpc           \* "idle" | "call" | "done"

lookupVars == <<vaultList, inputValue, suggestions, pc>>
distVars == <<source, target, threshold, distance, dpc>>
vars == <<vaultList, inputValue, suggestions, pc, source, target, threshold, distance, dpc>>

\* ------------------------------------------------------- string primitives
LowerChar(c) == IF c = "A" THEN "a" ELSE IF c = "B" THEN "b" ELSE c

toLowerCase(s) == [i \in 1..Len(s) |-> LowerChar(s[i])]

RECURSIVE trimStart(_)
trimStart(s) == IF s # <<>> /\ Head(s) = " " THEN trimStart(Tail(s)) ELSE s

RECURSIVE trimEnd(_)
trimEnd(s) ==
    IF s # <<>> /\ s[Len(s)] = " " THEN trimEnd(SubSeq(s, 1, Len(s) - 1)) ELSE s

trim(s) == trimEnd(trimStart(s))

startsWith(s, p) == Len(p) <= Len(s) /\ SubSeq(s, 1, Len(p)) = p

endsWith(s, p) == Len(p) <= Len(s) /\ SubSeq(s, Len(s) - Len(p) + 1, Len(s)) = p

includes(s, p) ==
    \E i \in 0..(Len(s) - Len(p)) : SubSeq(s, i + 1, i + Len(p)) = p

Abs(x) == IF x < 0 THEN -x ELSE x

\* ------------------------------------------- damerauLevenshteinDistance
isTranspositionHalf(sa, ta, i, j) == i > 1 /\ j > 1 /\ sa[i - 1] = ta[j]

\* the adjacent-pair swap condition (lookup.ts lines 212-217); i, j are 1-based
isTransposition(sa, ta, i, j) ==
    i > 1 /\ j > 1 /\ sa[i - 1] = ta[j] /\ sa[i] = ta[j - 1]

\* One pass of the inner loop (i = 1..maxi) for row j.  dCurrent is the
\* buffer rotated in from dMinus2, so it still holds the row of j - 3.
RECURSIVE innerLoop(_, _, _, _, _, _, _, _)
innerLoop(sa, ta, j, i, dCurrent, dMinus1, dMinus2, minDistance) ==
    IF i > Len(sa) THEN [row |-> dCurrent, min |-> minDistance]
    ELSE
        LET cost == IF sa[i] = ta[j] THEN 0 ELSE 1
            del == dCurrent[i - 1] + 1
            ins == dMinus1[i] + 1
            sub == dMinus1[i - 1] + cost
            min3 == IF del > ins THEN (IF ins > sub THEN sub ELSE ins)
                    ELSE (IF del > sub THEN sub ELSE del)
            min == IF isTransposition(sa, ta, i, j)
                   THEN (IF dMinus2[i - 2] + cost < min3
                         THEN dMinus2[i - 2] + cost ELSE min3)
                   ELSE min3
        IN  innerLoop(sa, ta, j, i + 1, [dCurrent EXCEPT ![i] = min], dMinus1, dMinus2,
                      IF min < minDistance THEN min ELSE minDistance)

RowAbortOffByOne(minDistance, thr) == minDistance >= thr

\* the per-row early abort (lookup.ts line 230)
RowAbort(minDistance, thr) == minDistance > thr

\* The outer loop (j = 1..maxj), entered with the buffers as they are before
\* the rotation of iteration j.
RECURSIVE outerLoop(_, _, _, _, _, _, _)
outerLoop(sa, ta, thr, j, dCurrent, dMinus1, dMinus2) ==
    IF j > Len(ta)
    THEN LET result == dCurrent[Len(sa)]
         IN  IF result > thr THEN INFINITE ELSE result
    ELSE
        LET r == innerLoop(sa, ta, j, 1, [dMinus2 EXCEPT ![0] = j],
                           dCurrent, dMinus1, INFINITE)
        IN  IF RowAbort(r.min, thr) THEN INFINITE
            ELSE outerLoop(sa, ta, thr, j + 1, r.row, dCurrent, dMinus1)

damerauLevenshteinDistance(src, tgt, thr) ==
    IF Abs(Len(src) - Len(tgt)) > thr THEN INFINITE
    ELSE
        LET swap == Len(src) > Len(tgt)
            sa == IF swap THEN tgt ELSE src
            ta == IF swap THEN src ELSE tgt
            maxi == Len(sa)
        IN  outerLoop(sa, ta, thr, 1, [i \in 0..maxi |-> i],
                      [i \in 0..maxi |-> 0], [i \in 0..maxi |-> 0])

\* ------------------------------------------------------------- candidates
\* A shape gives, vault by vault and note by note, the lengths <<path, title>>
\* of a note; a path is not empty.  FlattenShapes(m): the shapes of a vault's
\* tree.flatten() holding m characters in all.
RECURSIVE FlattenShapes(_)
FlattenShapes(m) ==
    IF m = 0 THEN {<<>>}
    ELSE UNION {{<<<<n, w - n>>>> \o rest : n \in 1..w, rest \in FlattenShapes(m - w)}
                    : w \in 1..m}

\* the shapes of the vault lists of size m, a vault counting 1 and each
\* character of a path or title 1
RECURSIVE VaultListShapes(_)
VaultListShapes(m) ==
    IF m = 0 THEN {<<>>}
    ELSE UNION {{<<vault>> \o rest : vault \in FlattenShapes(k - 1),
                                     rest \in VaultListShapes(m - k)} : k \in 1..m}

Shapes == UNION {VaultListShapes(m) : m \in 0..MaxSize}

RECURSIVE CharsOfFlatten(_, _)
CharsOfFlatten(noteShapes, field) ==
    IF noteShapes = <<>> THEN 0
    ELSE Head(noteShapes)[field] + CharsOfFlatten(Tail(noteShapes), field)

\* the path (field 1) or title (field 2) characters a shape asks for
RECURSIVE CharsOf(_, _)
CharsOf(shape, field) ==
    IF shape = <<>> THEN 0
    ELSE CharsOfFlatten(Head(shape), field) + CharsOf(Tail(shape), field)

Drop(seq, n) == SubSeq(seq, n + 1, Len(seq))

RECURSIVE FillFlatten(_, _, _)
FillFlatten(noteShapes, pathText, titleText) ==
    IF noteShapes = <<>> THEN <<>>
    ELSE LET n == Head(noteShapes)
         IN  <<[path |-> SubSeq(pathText, 1, n[1]), title |-> SubSeq(titleText, 1, n[2])]>>
             \o FillFlatten(Tail(noteShapes), Drop(pathText, n[1]), Drop(titleText, n[2]))

\* the vault list of a shape, its paths and titles cut from the two texts
RECURSIVE Fill(_, _, _)
Fill(shape, pathText, titleText) ==
    IF shape = <<>> THEN <<>>
    ELSE <<FillFlatten(Head(shape), pathText, titleText)>>
         \o Fill(Tail(shape), Drop(pathText, CharsOfFlatten(Head(shape), 1)),
                 Drop(titleText, CharsOfFlatten(Head(shape), 2)))

RECURSIVE SizeOfFlattened(_)
SizeOfFlattened(notes) ==
    IF notes = <<>> THEN 0
    ELSE Len(Head(notes).path) + Len(Head(notes).title) + SizeOfFlattened(Tail(notes))

RECURSIVE SizeOf(_)
SizeOf(vl) == IF vl = <<>> THEN 0 ELSE 1 + SizeOfFlattened(Head(vl)) + SizeOf(Tail(vl))

\* the creation sentinel, null in the source
NULL == [note |-> [path |-> <<>>, title |-> <<>>], vault |-> 0]

\* `undefined`, what result.find(...)?.note... gives on an empty result
Undefined == <<"undefined">>

\* vaultList.flatMap(vault => vault.tree.flatten().map(note => ({ note, vault })))
RECURSIVE flatMap(_, _)
flatMap(vl, v) ==
    IF v > Len(vl) THEN <<>>
    ELSE [i \in 1..Len(vl[v]) |-> [note |-> vl[v][i], vault |-> v]] \o flatMap(vl, v + 1)

getPath(item) == item.note.path

\* ----------------------------------------------------------- sortByDistance
RECURSIVE prefixLength(_, _, _)
prefixLength(queryLowercase, path, n) ==
    IF n < Len(queryLowercase) /\ n < Len(path) /\ queryLowercase[n + 1] = path[n + 1]
    THEN prefixLength(queryLowercase, path, n + 1)
    ELSE n

sortByDistance(a, b, queryLowercase) ==
    LET pathA == getPath(a)
        pathB == getPath(b)
        prefixALength == prefixLength(queryLowercase, pathA, 0)
        prefixBLength == prefixLength(queryLowercase, pathB, 0)
    IN  IF prefixALength # prefixBLength
        THEN prefixBLength - prefixALength
        ELSE damerauLevenshteinDistance(queryLowercase, pathA, SortThreshold)
             - damerauLevenshteinDistance(queryLowercase, pathB, SortThreshold)

\* Array.prototype.sort((a, b) => this.sortByDistance(a, b, query)): the sort
\* is stable, here an insertion sort
RECURSIVE insertSorted(_, _, _, _)
insertSorted(sorted, x, k, queryLowercase) ==
    IF k > 0 /\ sortByDistance(sorted[k], x, queryLowercase) > 0
    THEN insertSorted(sorted, x, k - 1, queryLowercase)
    ELSE SubSeq(sorted, 1, k) \o <<x>> \o SubSeq(sorted, k + 1, Len(sorted))

RECURSIVE sort(_, _)
sort(seq, queryLowercase) ==
    IF seq = <<>> THEN <<>>
    ELSE LET front == sort(SubSeq(seq, 1, Len(seq) - 1), queryLowercase)
         IN  insertSorted(front, seq[Len(seq)], Len(front), queryLowercase)

\* ------------------------------------------------------------ getSuggestions
normalizeNoTrim(query) == toLowerCase(query)

\* query.toLowerCase().trim()
normalize(query) == trim(toLowerCase(query))

isTopLevelAlways(item) == TRUE

\* !item.note.getPath().includes('.')
isTopLevel(item) == ~includes(getPath(item), <<".">>)

joinReversed(startsWithResults, containsResults) == containsResults \o startsWithResults

\* [...startsWithResults, ...containsResults]
join(startsWithResults, containsResults) == startsWithResults \o containsResults

needsCreateIgnoringSeparator(queryLowercase, result) ==
    LET firstResult == IF result = <<>> THEN Undefined ELSE toLowerCase(getPath(result[1]))
    IN  Len(queryLowercase) > 0 /\ firstResult # queryLowercase

\* the condition under which 'create new' is added (lookup.ts lines 68-71)
needsCreate(queryLowercase, result) ==
    LET firstResult == IF result = <<>> THEN Undefined ELSE toLowerCase(getPath(result[1]))
    IN  /\ Len(queryLowercase) > 0
        /\ ~endsWith(queryLowercase, <<".">>)
        /\ firstResult # queryLowercase

getSuggestions(query) ==
    LET queryLowercase == normalize(query)
        result == flatMap(vaultList, 1)
    IN  IF startsWith(queryLowercase, <<"?">>)
        THEN LET titleQuery == Tail(queryLowercase)
             IN  sort(SelectSeq(result,
                        LAMBDA item : includes(toLowerCase(item.note.title), titleQuery)),
                      titleQuery)
        ELSE IF Len(queryLowercase) = 0
        THEN SelectSeq(result, isTopLevel)
        ELSE
            LET startsWithResults ==
                    sort(SelectSeq(result, LAMBDA item :
                            startsWith(toLowerCase(getPath(item)), queryLowercase)),
                         queryLowercase)
                containsResults ==
                    sort(SelectSeq(result, LAMBDA item :
                            /\ ~startsWith(toLowerCase(getPath(item)), queryLowercase)
                            /\ includes(toLowerCase(getPath(item)), queryLowercase)),
                         queryLowercase)
                ranked == join(startsWithResults, containsResults)
            IN  IF needsCreate(queryLowercase, ranked) THEN <<NULL>> \o ranked ELSE ranked

\* ------------------------------------------------- the lookup specification
InitDistIdle ==
    /\ source = <<>>
    /\ target = <<>>
    /\ threshold = 0
    /\ distance = -1
    /\ dpc = "idle"

Init ==
    /\ \E shape \in Shapes :
          \E pathText \in [1..CharsOf(shape, 1) -> PathChars] :
             \E titleText \in [1..CharsOf(shape, 2) -> TitleChars] :
                vaultList = Fill(shape, pathText, titleText)
    /\ inputValue = <<>>
    /\ suggestions = <<>>
    /\ pc = "constructed"
    /\ InitDistIdle

\* an input event on inputEl: the modal shows getSuggestions(inputEl.value)
dispatchInput(value) ==
    /\ inputValue' = value
    /\ suggestions' = getSuggestions(value)
    /\ pc' = "suggested"
    /\ UNCHANGED vaultList
    /\ UNCHANGED distVars

\* onOpen: a non-empty initialQuery is put in the input and dispatched
OnOpen ==
    /\ pc = "constructed"
    /\ \E initialQuery \in Strings(QueryChars, 0, MaxSize - SizeOf(vaultList)) :
          IF Len(initialQuery) > 0
          THEN dispatchInput(initialQuery)
          ELSE pc' = "open" /\ UNCHANGED <<vaultList, inputValue, suggestions>>
                            /\ UNCHANGED distVars

\* the user types one character
TypeChar ==
    /\ pc # "constructed"
    /\ SizeOf(vaultList) + Len(inputValue) < MaxSize
    /\ \E c \in QueryChars : dispatchInput(Append(inputValue, c))

\* the user deletes the last character
Backspace ==
    /\ pc # "constructed"
    /\ inputValue # <<>>
    /\ dispatchInput(SubSeq(inputValue, 1, Len(inputValue) - 1))

\* the Tab handler: the selected row's data-path replaces the input
Tab ==
    /\ pc = "suggested"
    /\ \E sel \in 1..Len(suggestions) :
          /\ suggestions[sel] # NULL
          /\ getPath(suggestions[sel]) # <<>>
          /\ SizeOf(vaultList) + Len(getPath(suggestions[sel])) <= MaxSize
          /\ dispatchInput(getPath(suggestions[sel]))

Next == OnOpen \/ TypeChar \/ Backspace \/ Tab

Spec == Init /\ [][Next]_vars

\* ------------------------------------------- the distance specification
InitLookupIdle ==
    /\ vaultList = <<>>
    /\ inputValue = <<>>
    /\ suggestions = <<>>
    /\ pc = "constructed"

InitDist ==
    /\ source \in Strings(DistChars, 0, MaxLen)
    /\ target \in Strings(DistChars, 0, MaxLen)
    /\ threshold \in 0..MaxThreshold
    /\ distance = -1
    /\ dpc = "call"
    /\ InitLookupIdle

Distance ==
    /\ dpc = "call"
    /\ distance' = damerauLevenshteinDistance(source, target, threshold)
    /\ dpc' = "done"
    /\ UNCHANGED <<source, target, threshold>>
    /\ UNCHANGED lookupVars

NextDist == Distance

SpecDist == InitDist /\ [][NextDist]_vars

\* =================================================================== claims
\* the state read back, independently of getSuggestions
Items == flatMap(vaultList, 1)

\* the trimmed lower-cased query
Q == trimEnd(trimStart(toLowerCase(inputValue)))

\* the lower-cased query, not trimmed
U == toLowerCase(inputValue)

IsSentinel(s) == s = NULL

\* the returned entries, the sentinel left out
Ranked == SelectSeq(suggestions, LAMBDA s : ~IsSentinel(s))

Sentinels == {i \in 1..Len(suggestions) : IsSentinel(suggestions[i])}

PathMode == ~(Q # <<>> /\ Q[1] = "?")

TitleMode == Q # <<>> /\ Q[1] = "?"

lowerPath(item) == toLowerCase(item.note.path)

lowerTitle(item) == toLowerCase(item.note.title)

HasSeparator(path) == \E k \in 1..Len(path) : path[k] = "."

Count(seq, x) == Cardinality({i \in 1..Len(seq) : seq[i] = x})

SameEntries(s1, s2) ==
    /\ Len(s1) = Len(s2)
    /\ \A i \in 1..Len(s1) : Count(s1, s1[i]) = Count(s2, s1[i])

\* the rank key of the specification: common-prefix length, then the
\* threshold-10 distance, of the query against a comparison key
keyCompare(q, keyA, keyB) ==
    LET pa == prefixLength(q, keyA, 0)
        pb == prefixLength(q, keyB, 0)
    IN  IF pa # pb THEN pb - pa
        ELSE damerauLevenshteinDistance(q, keyA, SortThreshold)
             - damerauLevenshteinDistance(q, keyB, SortThreshold)

keyOf(item, mode) == IF mode = "title" THEN lowerTitle(item) ELSE lowerPath(item)

RECURSIVE refInsert(_, _, _, _, _)
refInsert(sorted, x, k, q, mode) ==
    IF k > 0 /\ keyCompare(q, keyOf(sorted[k], mode), keyOf(x, mode)) > 0
    THEN refInsert(sorted, x, k - 1, q, mode)
    ELSE SubSeq(sorted, 1, k) \o <<x>> \o SubSeq(sorted, k + 1, Len(sorted))

\* the stable sort of seq by the rank key of `mode`
RECURSIVE refSort(_, _, _)
refSort(seq, q, mode) ==
    IF seq = <<>> THEN <<>>
    ELSE LET front == refSort(SubSeq(seq, 1, Len(seq) - 1), q, mode)
         IN  refInsert(front, seq[Len(seq)], Len(front), q, mode)

\* C1: at most one creation sentinel is returned, only at position 0, and it
\* is present exactly when the query is in Path mode, its trimmed lower-cased
\* form is non-empty and does not end with '.', and no entry was ranked or
\* the first ranked entry's lower-cased path differs from that form.
SentinelExactlyWhenNoExactFirst ==
    pc = "suggested" =>
        /\ Cardinality(Sentinels) <= 1
        /\ Sentinels \subseteq {1}
        /\ (Sentinels # {}) <=>
              /\ PathMode
              /\ Q # <<>>
              /\ Q[Len(Q)] # "."
              /\ (Ranked = <<>> \/ lowerPath(Ranked[1]) # Q)

SentinelBeforeEntries ==
    /\ pc = "suggested"
    /\ Len(suggestions) >= 2
    /\ IsSentinel(suggestions[1])

\* C2: in Path mode, for a non-empty trimmed query q not ending with '.', the
\* first element is the sentinel when no candidate's path equals q ignoring
\* case, and otherwise there is no sentinel and the first element is an
\* entry whose path equals q ignoring case.
ExactMatchDecidesSentinel ==
    (pc = "suggested" /\ PathMode /\ Q # <<>> /\ Q[Len(Q)] # ".") =>
        IF \E i \in 1..Len(Items) : lowerPath(Items[i]) = Q
        THEN /\ Sentinels = {}
             /\ suggestions # <<>>
             /\ lowerPath(suggestions[1]) = Q
        ELSE /\ suggestions # <<>>
             /\ IsSentinel(suggestions[1])

\* C3: in Path mode with a non-empty query, every returned entry whose
\* lower-cased path starts with the query precedes every returned entry
\* whose lower-cased path only contains it.
PrefixMatchesFirst ==
    (pc = "suggested" /\ PathMode /\ Q # <<>>) =>
        \A i, j \in 1..Len(Ranked) :
            (startsWith(lowerPath(Ranked[i]), Q) /\ ~startsWith(lowerPath(Ranked[j]), Q))
                => i < j

PrefixAndSubstringReturned ==
    /\ pc = "suggested" /\ PathMode /\ Q # <<>>
    /\ \E i, j \in 1..Len(Ranked) :
          /\ startsWith(lowerPath(Ranked[i]), Q)
          /\ ~startsWith(lowerPath(Ranked[j]), Q)
          /\ includes(lowerPath(Ranked[j]), Q)

\* C4: in Title mode the result is the candidates whose lower-cased title
\* contains the query without its '?', in the stable order of the rank key
\* taken on the lower-cased title; paths play no part.
TitleModeRanksByTitle ==
    (pc = "suggested" /\ TitleMode) =>
        suggestions = refSort(SelectSeq(Items, LAMBDA it : includes(lowerTitle(it), Tail(Q))),
                              Tail(Q), "title")

\* C5: a query that is empty after trimming returns exactly the candidates
\* whose path has no '.', in the order of the flattened input, without
\* sentinel.
EmptyQueryListsTopLevel ==
    (pc = "suggested" /\ Q = <<>>) =>
        suggestions = SelectSeq(Items, LAMBDA it : ~HasSeparator(it.note.path))

BlankQueryListed ==
    /\ pc = "suggested"
    /\ inputValue # <<>>
    /\ Q = <<>>
    /\ suggestions # <<>>
    /\ Len(suggestions) < Len(Items)

\* C9 as stated: in Path mode the returned entries are the candidates whose
\* lower-cased path contains the lower-cased untrimmed query, those whose
\* path starts with it first.
MatchesUntrimmedQuery ==
    (pc = "suggested" /\ PathMode /\ Q # <<>>) =>
        LET matching == SelectSeq(Items, LAMBDA it : includes(lowerPath(it), U))
            nPrefix == Len(SelectSeq(Items, LAMBDA it : startsWith(lowerPath(it), U)))
        IN  /\ SameEntries(Ranked, matching)
            /\ \A i \in 1..Len(Ranked) : startsWith(lowerPath(Ranked[i]), U) <=> i <= nPrefix

\* C9 amended: in Path mode the returned entries are the candidates whose
\* lower-cased path contains the lower-cased trimmed query, those whose path
\* starts with it first.
MatchesTrimmedQuery ==
    (pc = "suggested" /\ PathMode /\ Q # <<>>) =>
        LET matching == SelectSeq(Items, LAMBDA it : includes(lowerPath(it), Q))
            nPrefix == Len(SelectSeq(Items, LAMBDA it : startsWith(lowerPath(it), Q)))
        IN  /\ SameEntries(Ranked, matching)
            /\ \A i \in 1..Len(Ranked) : startsWith(lowerPath(Ranked[i]), Q) <=> i <= nPrefix

PaddedQueryMatched ==
    /\ pc = "suggested" /\ PathMode /\ Q # <<>>
    /\ Len(inputValue) > Len(Q)
    /\ Ranked # <<>>

\* C10: each partition of a Path-mode result is in the stable order of the
\* rank key taken on the lower-cased path: larger common prefix first, then
\* smaller threshold-10 distance, ties in flattened input order.
PartitionsRankedByLowerPath ==
    (pc = "suggested" /\ PathMode /\ Q # <<>>) =>
        Ranked = refSort(SelectSeq(Items, LAMBDA it : startsWith(lowerPath(it), Q)),
                         Q, "path")
                 \o refSort(SelectSeq(Items, LAMBDA it :
                                ~startsWith(lowerPath(it), Q) /\ includes(lowerPath(it), Q)),
                            Q, "path")

\* the full-matrix recurrence: insertion, deletion, substitution and
\* adjacent transposition, each of cost 1
RECURSIVE fullMatrix(_, _, _, _)
fullMatrix(a, b, i, j) ==
    IF i = 0 THEN j
    ELSE IF j = 0 THEN i
    ELSE LET c == IF a[i] = b[j] THEN 0 ELSE 1
             x == fullMatrix(a, b, i - 1, j) + 1
             y == fullMatrix(a, b, i, j - 1) + 1
             z == fullMatrix(a, b, i - 1, j - 1) + c
             m == IF x < y THEN (IF x < z THEN x ELSE z) ELSE (IF y < z THEN y ELSE z)
         IN  IF i > 1 /\ j > 1 /\ a[i] = b[j - 1] /\ a[i - 1] = b[j]
             THEN LET t == fullMatrix(a, b, i - 2, j - 2) + 1
                  IN  IF t < m THEN t ELSE m
             ELSE m

TrueDistance == fullMatrix(source, target, Len(source), Len(target))

\* C6: for non-empty sequences the returned distance is the full-matrix
\* value when that is within the threshold, and INFINITE otherwise.
DistanceIsClampedTrueDistance ==
    (dpc = "done" /\ source # <<>> /\ target # <<>>) =>
        distance = IF TrueDistance <= threshold THEN TrueDistance ELSE INFINITE

TranspositionCostsOne ==
    /\ dpc = "done"
    /\ source = <<"a", "b">>
    /\ target = <<"b", "a">>
    /\ distance = 1

\* C7: when one sequence is empty and the other's length is within the
\* threshold, the returned distance is that length.
EmptyGivesOtherLength ==
    (dpc = "done" /\ (source = <<>> \/ target = <<>>)
                  /\ Len(source) + Len(target) <= threshold) =>
        distance = Len(source) + Len(target)

\* C8: the distance is symmetric in its two sequences.
DistanceSymmetric ==
    dpc = "done" => distance = damerauLevenshteinDistance(target, source, threshold)

SwappedPairMeasured ==
    /\ dpc = "done"
    /\ Len(source) > Len(target)
    /\ target # <<>>
    /\ distance > 0
    /\ distance < INFINITE

====
